---- MODULE Spec2Model ----
(***************************************************************************)
(* SCANNA backend: the inference pipeline (classifier singleton, attention *)
(* heatmap, Gemini explanation client) and the request handlers of         *)
(* app/routes/registros.py that drive it.                                  *)
(*                                                                         *)
(* Python values are modelled as follows.                                  *)
(*   str / None     [t |-> "str", s |-> "..."] and PyNone                  *)
(*   PIL image      [present, w, h, composite, split]; NoImage is Python's *)
(*                  None; split is the column where the pasted second      *)
(*                  image begins (0 for an image that is not a composite)  *)
(*   probabilities  integers in millionths (932149 = 0.932149)             *)
(*   percentages    integers in hundredths of a percent (8750 = 87.5)      *)
(***************************************************************************)
EXTENDS Integers, Sequences, FiniteSets, TLC

VARIABLES
    phase,               \* lifespan of app/main.py: "starting" | "serving"
    checkpointOk,        \* best_model_vit.pth exists and can be read
    gemini_api_key,      \* settings.gemini_api_key
    _model_instance,     \* ai_model._model_instance: 0 is None, else the instance id
    _explainer_instance, \* ai_explainer._explainer_instance (its api_key), or NoExplainer
    loads,               \* AnemiaDetectionModel instances ever constructed
    loadAttempts,        \* calls of _load_model
    registros,           \* db.registros: a set of documents
    files,               \* paths under the upload folder that exist on disk
    req,                 \* per request: position in its handler, arguments, locals
    running,             \* the request holding the event-loop thread, 0 when idle
    call,                \* last direct call of the explanation client
    remoteCalls,         \* generate_content calls made by direct calls
    pcall,               \* last direct call of model.predict
    seen,                \* the direct calls of predict so far, in order
    ccall,               \* last direct call of _concat_images_horizontally
    especialistas,       \* db.especialistas: a set of documents
    emailIndex,          \* the unique index on especialistas.email exists
    areq,                \* per /auth/registro request: position, arguments
    rng                  \* the numbers generate_numero_expediente draws from

vars == <<phase, checkpointOk, gemini_api_key, _model_instance,
          _explainer_instance, loads, loadAttempts, registros, files, req,
          running, call, remoteCalls, pcall, seen, ccall, especialistas,
          emailIndex, areq, rng>>

\* what the request handlers leave alone
authVars == <<especialistas, emailIndex, areq>>

directVars == <<pcall, seen, ccall, authVars, rng>>

serverVars == <<phase, checkpointOk, _model_instance, loads, loadAttempts,
                registros, files, req, running>>

(***************************************************************************)
(* Bounds                                                                  *)
(***************************************************************************)
MaxReqs == 2
MaxCalls == 2
MaxPredicts == 3
MaxAuth == 2

(***************************************************************************)
(* Python values                                                           *)
(***************************************************************************)
PyNone == [t |-> "None", s |-> ""]
PyStr(s) == [t |-> "str", s |-> s]
IsNonEmptyStr(v) == v.t = "str" /\ v.s # ""

NoImage == [present |-> FALSE, w |-> 0, h |-> 0, composite |-> FALSE, split |-> 0]
Img(w, h, composite) ==
    [present |-> TRUE, w |-> w, h |-> h, composite |-> composite, split |-> 0]

Labels == {"Anemia", "No Anemia"}

\* f"{confidence}" of a float that round(x, 2) produced, x in hundredths
FloatStr(c) ==
    LET whole == c \div 100
        frac == c % 100
    IN ToString(whole) \o "." \o
       (IF frac % 10 = 0 THEN ToString(frac \div 10)
        ELSE IF frac < 10 THEN "0" \o ToString(frac)
        ELSE ToString(frac))

(***************************************************************************)
(* GeminiExplainer (app/ai/ai_explainer.py)                                *)
(***************************************************************************)
MAX_SIZE == 1024

\* _generate_fallback_summary with the two branches exchanged
_generate_fallback_summary_Swapped(predicted_class, confidence) ==
    LET shown == IF confidence > 0 THEN FloatStr(confidence) ELSE "alta"
        head == "Analisis completado con IA (confianza: " \o shown \o "%). "
    IN IF predicted_class # "Anemia"
       THEN PyStr(head \o "Se detectaron signos compatibles con anemia. "
                  \o "Se recomienda consulta con hematologia.")
       ELSE PyStr(head \o "No se detectaron signos de anemia. "
                  \o "Se recomienda continuar con chequeos rutinarios.")

_generate_fallback_summary(predicted_class, confidence) ==
    LET shown == IF confidence > 0 THEN FloatStr(confidence) ELSE "alta"
        head == "Analisis completado con IA (confianza: " \o shown \o "%). "
    IN IF predicted_class = "Anemia"
       THEN PyStr(head \o "Se detectaron signos compatibles con anemia. "
                  \o "Se observa palidez en la conjuntiva ocular. "
                  \o "El analisis mediante IA sugiere realizar estudios "
                  \o "complementarios de laboratorio (hemograma completo, niveles "
                  \o "de hierro, ferritina) para confirmar el diagnostico y determinar "
                  \o "el tipo de anemia. Se recomienda consulta con hematologia "
                  \o "para evaluacion detallada.")
       ELSE PyStr(head \o "No se detectaron signos de anemia. Los valores de "
                  \o "coloracion de la conjuntiva estan dentro del rango normal. "
                  \o "Se recomienda continuar con chequeos rutinarios y mantener "
                  \o "una dieta balanceada rica en hierro. En caso de sintomas como "
                  \o "fatiga persistente, consultar con un especialista.")

\* int(x) of a non-negative quotient n/d
Trunc(n, d) == n \div d

_optimize_image_for_api(image) ==
    IF image.w > MAX_SIZE \/ image.h > MAX_SIZE
    THEN \* ratio = min(max_size / w, max_size / h) = max_size / max(w, h)
         LET m == IF image.w >= image.h THEN image.w ELSE image.h
         IN [image EXCEPT !.w = Trunc(image.w * MAX_SIZE, m),
                          !.h = Trunc(image.h * MAX_SIZE, m),
                          !.split = Trunc(image.split * MAX_SIZE, m)]
    ELSE image

(***************************************************************************)
(* What client.models.generate_content does for one call: it returns a     *)
(* response whose .text is a string, "" or None, or it raises APIError     *)
(* (code, status) or another Exception (network failure, timeout,          *)
(* malformed response).                                                    *)
(***************************************************************************)
RemoteText == PyStr("La palidez conjuntival resaltada sustenta la clase predicha.")

Response(text) == [kind |-> "response", text |-> text, code |-> 0, status |-> ""]
APIError(code, status) == [kind |-> "APIError", text |-> PyNone, code |-> code, status |-> status]
OtherError == [kind |-> "Exception", text |-> PyNone, code |-> 0, status |-> ""]

RemoteOutcomes ==
    { Response(RemoteText), Response(PyStr("")), Response(PyNone),
      APIError(429, "RESOURCE_EXHAUSTED"), APIError(401, "UNAUTHENTICATED"),
      APIError(503, "UNAVAILABLE"), OtherError }

RemoteFailed(o) == o.kind # "response"

\* error_code == 429 or 'RESOURCE_EXHAUSTED' in str(e) or '429' in str(e)
IsQuota(e) == e.code = 429 \/ e.status = "RESOURCE_EXHAUSTED"

Returned(v, n, level) == [ret |-> v, raised |-> FALSE, calls |-> n, log |-> level]
Raised(n) == [ret |-> PyNone, raised |-> TRUE, calls |-> n, log |-> "error"]

\* image.resize raises ValueError when a side of the new size is 0
ResizeRaises(image) ==
    image.present /\ (_optimize_image_for_api(image).w = 0
                      \/ _optimize_image_for_api(image).h = 0)

\* generate_explanation whose handlers fall back on a quota error only and
\* let every other error leave the function
generate_explanation_QuotaOnly(api_key, predicted_class, combined_image, remote) ==
    IF api_key = ""
    THEN Returned(_generate_fallback_summary(predicted_class, 0), 0, "warning")
    ELSE IF ResizeRaises(combined_image)
    THEN Raised(0)
    ELSE IF remote.kind = "response"
    THEN Returned(remote.text, 1, "info")
    ELSE IF remote.kind = "APIError" /\ IsQuota(remote)
    THEN Returned(_generate_fallback_summary(predicted_class, 0), 1, "warning")
    ELSE Raised(1)

\* generate_explanation that returns its error message for an API error
\* other than the quota error
generate_explanation_ErrorInText(api_key, predicted_class, combined_image, remote) ==
    IF api_key = ""
    THEN Returned(_generate_fallback_summary(predicted_class, 0), 0, "warning")
    ELSE IF ResizeRaises(combined_image)
    THEN Returned(_generate_fallback_summary(predicted_class, 0), 0, "error")
    ELSE IF remote.kind = "response"
    THEN Returned(remote.text, 1, "info")
    ELSE IF remote.kind = "APIError" /\ ~IsQuota(remote)
    THEN Returned(PyStr("Error de Google API: " \o ToString(remote.code)
                        \o " " \o remote.status), 1, "error")
    ELSE Returned(_generate_fallback_summary(predicted_class, 0), 1, "warning")

generate_explanation(api_key, predicted_class, combined_image, remote) ==
    IF api_key = ""
    THEN Returned(_generate_fallback_summary(predicted_class, 0), 0, "warning")
    ELSE IF ResizeRaises(combined_image)
    THEN Returned(_generate_fallback_summary(predicted_class, 0), 0, "error")
    ELSE IF remote.kind = "response"
    THEN Returned(remote.text, 1, "info")
    ELSE IF remote.kind = "APIError"
    THEN Returned(_generate_fallback_summary(predicted_class, 0), 1,
                  IF IsQuota(remote) THEN "warning" ELSE "error")
    ELSE Returned(_generate_fallback_summary(predicted_class, 0), 1, "error")

\* generate_summary_without_image without its `if not self.api_key` guard
generate_summary_without_image_NoGuard(api_key, predicted_class, confidence, remote) ==
    IF remote.kind = "response"
    THEN Returned(remote.text, 1, "info")
    ELSE Returned(_generate_fallback_summary(predicted_class, confidence), 1, "error")

generate_summary_without_image(api_key, predicted_class, confidence, remote) ==
    IF api_key = ""
    THEN Returned(_generate_fallback_summary(predicted_class, confidence), 0, "info")
    ELSE IF remote.kind = "response"
    THEN Returned(remote.text, 1, "info")
    ELSE IF remote.kind = "APIError"
    THEN Returned(_generate_fallback_summary(predicted_class, confidence), 1,
                  IF IsQuota(remote) THEN "warning" ELSE "error")
    ELSE Returned(_generate_fallback_summary(predicted_class, confidence), 1, "error")

\* the branch of generate_medical_explanation: `if combined_image:`
ExplainerFn(combined_image) ==
    IF combined_image.present THEN "generate_explanation"
    ELSE "generate_summary_without_image"

generate_medical_explanation(api_key, predicted_class, confidence, combined_image, remote) ==
    IF ExplainerFn(combined_image) = "generate_explanation"
    THEN generate_explanation(api_key, predicted_class, combined_image, remote)
    ELSE generate_summary_without_image(api_key, predicted_class, confidence, remote)

(***************************************************************************)
(* get_explainer: the lazily constructed explainer singleton               *)
(***************************************************************************)
NoExplainer == [constructed |-> FALSE, api_key |-> ""]

\* GeminiExplainer.__init__: self.api_key = api_key or settings.gemini_api_key
GeminiExplainer(settings_key) == [constructed |-> TRUE, api_key |-> settings_key]

\* a get_explainer whose instance gives its credential up after the first use
get_explainer_KeyOnce(instance, settings_key) ==
    IF ~instance.constructed THEN GeminiExplainer(settings_key)
    ELSE [instance EXCEPT !.api_key = ""]

\* the value of _explainer_instance after get_explainer() returns (it returns the same)
get_explainer(instance, settings_key) ==
    IF ~instance.constructed THEN GeminiExplainer(settings_key) ELSE instance

(***************************************************************************)
(* Direct calls of the explanation client, with arguments drawn from       *)
(* bounded sets.                                                           *)
(***************************************************************************)
ApiKeys == {"", "AIza-key"}
Confidences == {0, 5000, 8750, 9321, 10000}
CallImages == { NoImage, Img(600, 300, TRUE), Img(300, 200, FALSE),
                Img(4096, 1024, TRUE), Img(5000, 2, TRUE) }

NoCall == [fn |-> "none", api_key |-> "", predicted_class |-> "", confidence |-> 0,
           image |-> NoImage, remote |-> OtherError, out |-> Returned(PyNone, 0, "info")]

Called(fn, key, label, conf, image, remote, out) ==
    [fn |-> fn, api_key |-> key, predicted_class |-> label, confidence |-> conf,
     image |-> image, remote |-> remote, out |-> out]

CallGenerateExplanation ==
    \E label \in Labels, image \in CallImages, remote \in RemoteOutcomes :
        LET e == get_explainer(_explainer_instance, gemini_api_key)
            out == generate_explanation(e.api_key, label, image, remote)
        IN /\ remoteCalls + out.calls <= MaxCalls
           /\ _explainer_instance' = e
           /\ call' = Called("generate_explanation", e.api_key, label, 0, image, remote, out)
           /\ remoteCalls' = remoteCalls + out.calls
           /\ UNCHANGED <<serverVars, gemini_api_key, directVars>>

CallGenerateSummaryWithoutImage ==
    \E label \in Labels, conf \in Confidences, remote \in RemoteOutcomes :
        LET e == get_explainer(_explainer_instance, gemini_api_key)
            out == generate_summary_without_image(e.api_key, label, conf, remote)
        IN /\ remoteCalls + out.calls <= MaxCalls
           /\ _explainer_instance' = e
           /\ call' = Called("generate_summary_without_image", e.api_key, label, conf,
                             NoImage, remote, out)
           /\ remoteCalls' = remoteCalls + out.calls
           /\ UNCHANGED <<serverVars, gemini_api_key, directVars>>

CallGenerateMedicalExplanation ==
    \E label \in Labels, conf \in Confidences, image \in CallImages,
       remote \in RemoteOutcomes :
        LET e == get_explainer(_explainer_instance, gemini_api_key)
            out == generate_medical_explanation(e.api_key, label, conf, image, remote)
        IN /\ remoteCalls + out.calls <= MaxCalls
           /\ _explainer_instance' = e
           /\ call' = Called(ExplainerFn(image), e.api_key, label,
                             IF image.present THEN 0 ELSE conf, image, remote, out)
           /\ remoteCalls' = remoteCalls + out.calls
           /\ UNCHANGED <<serverVars, gemini_api_key, directVars>>

(***************************************************************************)
(* AnemiaDetectionModel (app/ai/ai_model.py)                               *)
(***************************************************************************)
\* _load_model that goes on without the checkpoint
_load_model_Unchecked(ok) == [raised |-> FALSE, training |-> FALSE]

\* _load_model that leaves out self.model.eval(): from_pretrained returns the
\* network in evaluation mode only by its own default, and a network left in
\* training mode applies dropout in every forward pass
_load_model_NoEval(ok) == [raised |-> ~ok, training |-> TRUE]

\* _load_model raises when MODEL_PATH does not exist or torch.load fails;
\* otherwise it leaves the network in evaluation mode (self.model.eval())
_load_model(ok) == [raised |-> ~ok, training |-> FALSE]

\* get_model without `if _model_instance is None`: a new instance per call
get_model_Uncached(instance, n, ok) ==
    IF _load_model(ok).raised
    THEN [instance |-> instance, raised |-> TRUE, attempted |-> TRUE, constructed |-> FALSE]
    ELSE [instance |-> n + 1, raised |-> FALSE, attempted |-> TRUE, constructed |-> TRUE]

\* get_model(): the instance after the call (0 is None), whether the call
\* raised, and whether it constructed an AnemiaDetectionModel (n so far)
get_model(instance, n, ok) ==
    IF instance = 0
    THEN IF _load_model(ok).raised
         THEN [instance |-> 0, raised |-> TRUE, attempted |-> TRUE, constructed |-> FALSE]
         ELSE [instance |-> n + 1, raised |-> FALSE, attempted |-> TRUE, constructed |-> TRUE]
    ELSE [instance |-> instance, raised |-> FALSE, attempted |-> FALSE, constructed |-> FALSE]

(***************************************************************************)
(* Uploaded files. `valid` is what validate_and_load_image decides; `fwd`  *)
(* is whether TRANSFORM and the forward pass succeed on the decoded image  *)
(* (a truncated RGB file opens lazily and fails only there); p0 is the     *)
(* softmax probability of class 0 (ANEMIA) in millionths; `huge` marks an  *)
(* image whose colormapped mask cannot be allocated; `mask` is the selected *)
(* attention row after its resize to the image, a few of its values.       *)
(***************************************************************************)
Upload(name, ext, valid, fwd, p0, huge, w, h) ==
    [name |-> name, ext |-> ext, valid |-> valid, fwd |-> fwd, p0 |-> p0,
     p1 |-> 1000000 - p0, huge |-> huge, img |-> Img(w, h, FALSE),
     mask |-> <<2, 8, 4>>]

NoUpload == Upload("", "", FALSE, FALSE, 0, FALSE, 0, 0)

Uploads ==
    { Upload("pale.jpg", ".jpg", TRUE, TRUE, 932149, FALSE, 300, 200),
      Upload("healthy.png", ".png", TRUE, TRUE, 124500, FALSE, 640, 480),
      Upload("truncated.jpg", ".jpg", TRUE, FALSE, 0, FALSE, 300, 200),
      Upload("huge.png", ".png", TRUE, TRUE, 500000, TRUE, 9000, 9000),
      Upload("notes.txt", ".txt", FALSE, FALSE, 0, FALSE, 0, 0) }

UploadNamed(name) == CHOOSE u \in Uploads \cup {NoUpload} : u.name = name

\* round(p * 100, 1): one decimal instead of two
Round2_OneDecimal(p) ==
    LET q == p \div 1000
        rem == p % 1000
    IN IF rem > 500 \/ (rem = 500 /\ q % 2 = 1) THEN (q + 1) * 10 ELSE q * 10

\* round(p * 100, 2) of a probability in millionths, in hundredths of a percent
Round2(p) ==
    LET q == p \div 100
        rem == p % 100
    IN IF rem > 50 \/ (rem = 50 /\ q % 2 = 1) THEN q + 1 ELSE q

\* a concatenation that stacks the two images instead
_concat_images_horizontally_Stacked(img1, img2) ==
    [image |-> [Img(img1.w, img1.h + img2.h, TRUE) EXCEPT !.split = 0],
     raised |-> FALSE]

\* the image returned, or raised: img2.resize raises ValueError when the
\* proportional width int(w2 * h1 / h2) is 0
_concat_images_horizontally(img1, img2) ==
    LET w2 == IF img1.h # img2.h THEN Trunc(img2.w * img1.h, img2.h) ELSE img2.w
    IN IF w2 < 1
       THEN [image |-> NoImage, raised |-> TRUE]
       ELSE [image |-> [Img(img1.w + w2, img1.h, TRUE) EXCEPT !.split = img1.w],
             raised |-> FALSE]

\* np.max(mask)
MaxOf(mask) == CHOOSE m \in {mask[i] : i \in DOMAIN mask} :
                   \A i \in DOMAIN mask : mask[i] <= m

\* what numpy gives for x / 0: nan or inf, no exception
NotANumber == -1

\* mask / np.max(mask) without the test of the maximum
Normalize_Unguarded(mask) ==
    [mask |-> [i \in DOMAIN mask |->
                  IF MaxOf(mask) = 0 THEN NotANumber
                  ELSE (mask[i] * 1000000) \div MaxOf(mask)],
     divided |-> TRUE]

\* mask = mask / np.max(mask) if np.max(mask) > 0 else mask; the normalized
\* values are in millionths
Normalize(mask) ==
    IF MaxOf(mask) > 0
    THEN [mask |-> [i \in DOMAIN mask |-> (mask[i] * 1000000) \div MaxOf(mask)],
          divided |-> TRUE]
    ELSE [mask |-> mask, divided |-> FALSE]

\* the try block of _generate_heatmap raises: the colormapped mask of a huge
\* image cannot be allocated (MemoryError)
HeatmapRaises(upload) == upload.huge

\* _generate_heatmap without its try/except
_generate_heatmap_Uncaught(upload) ==
    LET combined == _concat_images_horizontally(upload.img, upload.img)
    IN IF HeatmapRaises(upload) \/ combined.raised
       THEN [image |-> NoImage, raised |-> TRUE, caught |-> FALSE,
             mask |-> Normalize(upload.mask).mask,
             divided |-> Normalize(upload.mask).divided]
       ELSE [image |-> combined.image, raised |-> FALSE, caught |-> FALSE,
             mask |-> Normalize(upload.mask).mask,
             divided |-> Normalize(upload.mask).divided]

\* the image returned, whether an exception left the function, whether the
\* except branch ran, and the mask after the normalization step. The overlay
\* is Image.blend of the original with the mask resized to
\* original_image.size, so it has the original's size.
_generate_heatmap(upload) ==
    LET combined == _concat_images_horizontally(upload.img, upload.img)
    IN IF HeatmapRaises(upload) \/ combined.raised
       THEN [image |-> upload.img, raised |-> FALSE, caught |-> TRUE,
             mask |-> Normalize(upload.mask).mask,
             divided |-> Normalize(upload.mask).divided]
       ELSE [image |-> combined.image, raised |-> FALSE, caught |-> FALSE,
             mask |-> Normalize(upload.mask).mask,
             divided |-> Normalize(upload.mask).divided]

NoResult == [raised |-> FALSE, resultado |-> "", confianza |-> 0,
             anemia |-> 0, no_anemia |-> 0, has_heatmap |-> FALSE,
             heatmap |-> NoImage, heatmap_caught |-> FALSE,
             heatmap_mask |-> <<>>, heatmap_divided |-> FALSE]

\* self.model.training of the instance get_model returns: _load_model sets
\* it and nothing assigns it afterwards
ModelTraining == _load_model(TRUE).training

\* torch.softmax(self.model(image_tensor).logits, dim=1): <<p0, p1>> of the
\* image under torch.no_grad(). In evaluation mode the forward pass is a
\* function of the image and the weights; in training mode dropout moves it.
softmax(upload, training, noise) ==
    IF training
    THEN <<upload.p0 - noise, upload.p1 + noise>>
    ELSE <<upload.p0, upload.p1>>

\* an argmax that prefers the last index on ties and otherwise the smaller
torch_argmax_Min(probabilities) ==
    IF probabilities[1] < probabilities[2] THEN 0 ELSE 1

\* torch.argmax(probabilities, dim=1).item(): the first maximal index
torch_argmax(probabilities) ==
    IF probabilities[1] >= probabilities[2] THEN 0 ELSE 1

\* the probability of class 0 whatever the predicted index
Item_ClassZero(probabilities, idx) == probabilities[1]

\* probabilities[0][idx].item()
Item(probabilities, idx) == probabilities[idx + 1]

predict(training, upload, generate_heatmap, noise) ==
    LET hm == _generate_heatmap(upload)
        probabilities == softmax(upload, training, noise)
        predicted_idx == torch_argmax(probabilities)
        confidence == Item(probabilities, predicted_idx)
    IN IF ~upload.fwd \/ (generate_heatmap /\ hm.raised)
       THEN [NoResult EXCEPT !.raised = TRUE]
       ELSE [raised |-> FALSE,
             resultado |-> IF predicted_idx = 0 THEN "Anemia" ELSE "No Anemia",
             confianza |-> Round2(confidence),
             anemia |-> Round2(Item(probabilities, 0)),
             no_anemia |-> Round2(Item(probabilities, 1)),
             has_heatmap |-> generate_heatmap,
             heatmap |-> IF generate_heatmap THEN hm.image ELSE NoImage,
             heatmap_caught |-> generate_heatmap /\ hm.caught,
             heatmap_mask |-> IF generate_heatmap THEN hm.mask ELSE <<>>,
             heatmap_divided |-> generate_heatmap /\ hm.divided]

(***************************************************************************)
(* Direct calls of get_model() and model.predict, with images drawn from a *)
(* bounded set. The two softmax outputs are float32 values: their sum is 1 *)
(* up to the last digit kept here.                                         *)
(***************************************************************************)
PredictImage(name, p0, p1, fwd, huge, w, h) ==
    [Upload(name, ".png", TRUE, fwd, p0, huge, w, h) EXCEPT !.p1 = p1]

PredictImages ==
    { PredictImage("pale", 932149, 67851, TRUE, FALSE, 300, 200),
      PredictImage("healthy", 124500, 875500, TRUE, FALSE, 640, 480),
      PredictImage("tie", 500000, 500000, TRUE, FALSE, 224, 224),
      PredictImage("near", 499999, 500001, TRUE, FALSE, 100, 100),
      PredictImage("half_up", 123451, 876550, TRUE, FALSE, 1024, 768),
      PredictImage("half_down", 123450, 876549, TRUE, FALSE, 100, 3000),
      PredictImage("tenth", 123500, 876501, TRUE, FALSE, 1, 1),
      PredictImage("sure", 1000000, 0, TRUE, FALSE, 4000, 3000),
      PredictImage("truncated", 0, 0, FALSE, FALSE, 300, 200),
      PredictImage("huge", 67851, 932149, TRUE, TRUE, 9000, 9000),
      [PredictImage("flat", 700000, 300000, TRUE, FALSE, 320, 240)
          EXCEPT !.mask = <<0, 0, 0>>] }

\* what dropout may add to the class-1 probability in training mode
DropoutNoise == {0, 2500}

\* images passed to _concat_images_horizontally
ConcatImages ==
    { Img(300, 200, FALSE), Img(640, 480, FALSE), Img(224, 224, FALSE),
      Img(1, 1, FALSE), Img(100, 3000, FALSE), Img(4000, 10, FALSE),
      Img(1024, 768, FALSE), Img(2, 5000, FALSE), Img(5000, 2, FALSE),
      Img(480, 640, FALSE), Img(300, 201, FALSE) }

NoConcatCall == [made |-> FALSE, img1 |-> NoImage, img2 |-> NoImage,
                 out |-> [image |-> NoImage, raised |-> FALSE]]

\* self._concat_images_horizontally(img1, img2)
CallConcat ==
    /\ \E img1 \in ConcatImages, img2 \in ConcatImages :
          ccall' = [made |-> TRUE, img1 |-> img1, img2 |-> img2,
                    out |-> _concat_images_horizontally(img1, img2)]
    /\ UNCHANGED <<serverVars, gemini_api_key, _explainer_instance, call,
                   remoteCalls, pcall, seen, authVars, rng>>

NoPredictCall == [made |-> FALSE, image |-> NoUpload, generate_heatmap |-> FALSE,
                  model |-> 0, out |-> NoResult]

PredictCalled(image, generate_heatmap, model, out) ==
    [made |-> TRUE, image |-> image, generate_heatmap |-> generate_heatmap,
     model |-> model, out |-> out]

\* model = get_model()
CallGetModel ==
    LET g == get_model(_model_instance, loads, checkpointOk)
    IN /\ _model_instance = 0
       /\ _model_instance' = g.instance
       /\ loads' = IF g.constructed THEN loads + 1 ELSE loads
       /\ loadAttempts' = IF g.attempted THEN loadAttempts + 1 ELSE loadAttempts
       /\ UNCHANGED <<phase, checkpointOk, gemini_api_key, _explainer_instance,
                      registros, files, req, running, call, remoteCalls, directVars>>

\* get_model().predict(image, generate_heatmap)
CallPredict ==
    /\ _model_instance # 0
    /\ Len(seen) < MaxPredicts
    /\ \E image \in PredictImages, generate_heatmap \in BOOLEAN, noise \in DropoutNoise :
         LET out == predict(ModelTraining, image, generate_heatmap, noise)
             c == PredictCalled(image, generate_heatmap, _model_instance, out)
         IN /\ pcall' = c
            /\ seen' = Append(seen, c)
    /\ UNCHANGED <<serverVars, gemini_api_key, _explainer_instance, call,
                   remoteCalls, ccall, authVars, rng>>

(***************************************************************************)
(* The server: requests, the record store and the upload folder            *)
(***************************************************************************)
Reqs == 1..MaxReqs
Especialistas == {"esp-A", "esp-B"}
SuppliedNumeros == {"", "EXP-1"}
\* values generate_numero_expediente may return
GenPool == {"20261102-A1B2", "20261102-C3D4"}
max_retries == 10

NoExpl == [fn |-> "none", out |-> Returned(PyNone, 0, "info")]

NoBody == [resultado |-> "", confianza |-> 0, has_explicacion |-> FALSE,
           explicacion |-> PyNone, has_heatmap |-> FALSE, registro |-> 0]

IdleReq ==
    [pc |-> "idle", kind |-> "none", esp |-> "", genExp |-> FALSE, upload |-> "",
     numero |-> "", supplied |-> FALSE, target |-> 0, model |-> 0,
     ia |-> NoResult, expl |-> NoExpl, ai_summary |-> PyNone,
     imagen_mapa |-> NoImage, retry_count |-> 0, ruta_original |-> "",
     ruta_mapa |-> "", status |-> 0, body |-> NoBody, effects |-> {},
     afterFail |-> FALSE, lookups |-> 0, looked |-> {}, filtro |-> "",
     returned |-> {}]

\* the handler returned or raised HTTPException: the response leaves
Respond(rq, status, body) == [rq EXCEPT !.pc = "done", !.status = status, !.body = body]

\* a handler that answers 200 with an empty analysis when the analysis raised
OnAnalysisError_Swallowed(rq) == Respond(rq, 200, NoBody)

\* `except Exception` around the analysis of the three handlers
OnAnalysisError(rq) == Respond(rq, 500, NoBody)

\* analizar_imagen_ia without `del result["heatmap"]`
analizar_result_KeepHeatmap(ia, generar_explicacion, explanation) ==
    LET result == [NoBody EXCEPT !.resultado = ia.resultado,
                                 !.confianza = ia.confianza,
                                 !.has_heatmap = ia.has_heatmap]
    IN IF generar_explicacion
       THEN [result EXCEPT !.has_explicacion = TRUE, !.explicacion = explanation]
       ELSE result

\* the "analisis" analizar_imagen_ia returns: the dict of predict, to which
\* the explanation is added and from which the heatmap is deleted
analizar_result(ia, generar_explicacion, explanation) ==
    LET result == [NoBody EXCEPT !.resultado = ia.resultado,
                                 !.confianza = ia.confianza,
                                 !.has_heatmap = ia.has_heatmap]
    IN IF generar_explicacion
       THEN [result EXCEPT !.has_explicacion = TRUE, !.explicacion = explanation,
                           !.has_heatmap = FALSE]
       ELSE result

\* the "analisis_actualizado" reanalizar_registro returns: a new dict with
\* resultado, confianza and probabilidades, plus the explanation
reanalizar_result(ia, generar_explicacion, explanation) ==
    LET result == [NoBody EXCEPT !.resultado = ia.resultado,
                                 !.confianza = ia.confianza]
    IN IF generar_explicacion
       THEN [result EXCEPT !.has_explicacion = TRUE, !.explicacion = explanation]
       ELSE result

\* a registro_doc whose top-level resultado is the class name of the network
Registro_ClassName(id, rq) ==
    [_id |-> id,
     numeroExpediente |-> rq.numero,
     especialistaId |-> rq.esp,
     rutaOriginal |-> rq.ruta_original,
     rutaMapaAtencion |-> rq.ruta_mapa,
     analisis |-> [resultado |-> rq.ia.resultado, aiSummary |-> rq.ai_summary,
                   confianza |-> rq.ia.confianza, procesadoConIA |-> TRUE],
     resultado |-> IF rq.ia.resultado = "Anemia" THEN "ANEMIA" ELSE "NO_ANEMIA",
     updates |-> 0]

\* registro_doc
Registro(id, rq) ==
    [_id |-> id,
     numeroExpediente |-> rq.numero,
     especialistaId |-> rq.esp,
     rutaOriginal |-> rq.ruta_original,
     rutaMapaAtencion |-> rq.ruta_mapa,
     analisis |-> [resultado |-> rq.ia.resultado, aiSummary |-> rq.ai_summary,
                   confianza |-> rq.ia.confianza, procesadoConIA |-> TRUE],
     resultado |-> rq.ia.resultado,
     updates |-> 0]

\* db.registros.find_one / find
FindByNumero(numero) == {d \in registros : d.numeroExpediente = numero}
\* find_one({"_id": ...}) without the especialistaId of the caller
FindOwned_AnyOwner(id, esp) == {d \in registros : d._id = id}

FindOwned(id, esp) == {d \in registros : d._id = id /\ d.especialistaId = esp}
FindById(id) == {d \in registros : d._id = id}

\* the upload folder: a file is [path, name of the upload it holds, composite]
\* sanitize_filename on the expediente numbers of the model: no character is
\* removed, letters are lowered
sanitize_filename(stem) ==
    CASE stem = "EXP-1" -> "exp-1"
      [] stem = "20261102-A1B2" -> "20261102-a1b2"
      [] stem = "20261102-C3D4" -> "20261102-c3d4"
      [] OTHER -> stem

\* the relative paths save_uploaded_image returns
OriginalPath(numero, ext) == "originales/" \o sanitize_filename(numero) \o ext
MapaPath(numero) == "mapas_atencion/" \o sanitize_filename(numero) \o "_mapa.png"
FileAt(path) == {f \in files : f.path = path}
\* open(file_path, "wb") and copy
WriteFile(fs, path, name, composite) ==
    {f \in fs : f.path # path} \cup {[path |-> path, name |-> name, composite |-> composite]}
\* delete_file: unlink when the path exists
delete_file(fs, path) == {f \in fs : f.path # path}

Startup ==
    /\ phase = "starting"
    /\ phase' = "serving"
    /\ UNCHANGED <<checkpointOk, gemini_api_key, _model_instance,
                   _explainer_instance, loads, loadAttempts, registros, files,
                   req, running, call, remoteCalls, directVars>>

Arrive(r) ==
    /\ phase = "serving"
    /\ req[r].pc = "idle"
    /\ r > 1 => req[r - 1].pc # "idle"
    /\ \E kind \in {"analizar", "crear", "reanalizar"}, esp \in Especialistas,
          genExp \in BOOLEAN, u \in Uploads, numero \in SuppliedNumeros, target \in Reqs :
          /\ kind = "reanalizar" => u.name = "pale.jpg" /\ numero = ""
          /\ kind = "analizar" => numero = "" /\ target = 1
          /\ kind = "crear" => target = 1
          /\ req' = [req EXCEPT ![r] =
                 [IdleReq EXCEPT
                    !.pc = IF kind = "reanalizar" THEN "lookup" ELSE "validate",
                    !.kind = kind, !.esp = esp, !.genExp = genExp,
                    !.upload = IF kind = "reanalizar" THEN "" ELSE u.name,
                    !.numero = numero, !.supplied = numero # "",
                    !.target = IF kind = "reanalizar" THEN target ELSE 0,
                    !.afterFail = \E q \in Reqs : req[q].pc = "done" /\ req[q].ia.raised]]
    /\ UNCHANGED <<phase, checkpointOk, gemini_api_key, _model_instance,
                   _explainer_instance, loads, loadAttempts, registros, files,
                   running, call, remoteCalls, directVars>>

\* model = get_model() and the call of model.predict, which does not return
\* before EndAI: the handler keeps the event-loop thread meanwhile
EnterPredict(r, rq) ==
    LET g == get_model(_model_instance, loads, checkpointOk)
    IN /\ _model_instance' = g.instance
       /\ loads' = IF g.constructed THEN loads + 1 ELSE loads
       /\ loadAttempts' = IF g.attempted THEN loadAttempts + 1 ELSE loadAttempts
       /\ IF g.raised
          THEN /\ req' = [req EXCEPT ![r] = OnAnalysisError(rq)]
               /\ running' = 0
          ELSE /\ req' = [req EXCEPT ![r] = [rq EXCEPT !.pc = "predict", !.model = g.instance]]
               /\ running' = r

\* validate_and_load_image, then (analizar) straight on into the analysis
Validate(r) ==
    /\ req[r].pc = "validate"
    /\ running = 0
    /\ IF ~UploadNamed(req[r].upload).valid
       THEN /\ req' = [req EXCEPT ![r] = Respond(req[r], 400, NoBody)]
            /\ UNCHANGED <<_model_instance, loads, loadAttempts, running>>
       ELSE IF req[r].kind = "crear"
       THEN /\ req' = [req EXCEPT ![r].pc = "ai"]
            /\ UNCHANGED <<_model_instance, loads, loadAttempts, running>>
       ELSE EnterPredict(r, req[r])
    /\ UNCHANGED <<phase, checkpointOk, gemini_api_key,
                   _explainer_instance, registros, files, call, remoteCalls, directVars>>

\* crear_registro after `await imagen_original.seek(0)`
BeginAI(r) ==
    /\ req[r].pc = "ai"
    /\ running = 0
    /\ EnterPredict(r, req[r])
    /\ UNCHANGED <<phase, checkpointOk, gemini_api_key,
                   _explainer_instance, registros, files, call, remoteCalls, directVars>>

\* reanalizar_registro from the result of find_one to the call of predict
Lookup(r) ==
    /\ req[r].pc = "lookup"
    /\ running = 0
    /\ LET found == FindOwned(req[r].target, req[r].esp)
           doc == CHOOSE d \in found : TRUE
           stored == FileAt(doc.rutaOriginal)
           name == (CHOOSE f \in stored : TRUE).name
       IN IF found = {}
          THEN /\ req' = [req EXCEPT ![r] = Respond(req[r], 404, NoBody)]
               /\ UNCHANGED <<_model_instance, loads, loadAttempts, running>>
          ELSE IF doc.rutaOriginal = ""
          THEN /\ req' = [req EXCEPT ![r] = Respond(req[r], 400, NoBody)]
               /\ UNCHANGED <<_model_instance, loads, loadAttempts, running>>
          ELSE IF stored = {}
          THEN /\ req' = [req EXCEPT ![r] = Respond(req[r], 404, NoBody)]
               /\ UNCHANGED <<_model_instance, loads, loadAttempts, running>>
          ELSE IF ~UploadNamed(name).fwd
          THEN \* Image.open(image_path).convert("RGB") raises
               /\ req' = [req EXCEPT ![r] = OnAnalysisError([req[r] EXCEPT !.upload = name])]
               /\ UNCHANGED <<_model_instance, loads, loadAttempts, running>>
          ELSE EnterPredict(r, [req[r] EXCEPT !.upload = name])
    /\ UNCHANGED <<phase, checkpointOk, gemini_api_key,
                   _explainer_instance, registros, files, call, remoteCalls, directVars>>

\* predict returns or raises; then, without leaving the event-loop thread,
\* the explanation, and each handler's code up to its next await or return
EndAI(r) ==
    /\ req[r].pc = "predict"
    /\ running = r
    /\ running' = 0
    /\ LET rq == req[r]
           \* the loaded network is in evaluation mode: no dropout is drawn
           ia == predict(ModelTraining, UploadNamed(rq.upload), rq.genExp, 0)
           e == get_explainer(_explainer_instance, gemini_api_key)
       IN IF ia.raised
          THEN /\ req' = [req EXCEPT ![r] = OnAnalysisError([rq EXCEPT !.ia = ia])]
               /\ UNCHANGED <<_explainer_instance, remoteCalls>>
          ELSE IF ~rq.genExp
          THEN /\ UNCHANGED <<_explainer_instance, remoteCalls>>
               /\ \E c \in rng :
                    LET rq1 == [rq EXCEPT !.ia = ia]
                    IN req' = [req EXCEPT ![r] =
                         CASE rq.kind = "analizar" ->
                                Respond(rq1, 200, analizar_result(ia, FALSE, PyNone))
                           [] rq.kind = "crear" ->
                                [rq1 EXCEPT !.pc = "find_numero",
                                            !.numero = IF rq.supplied THEN rq.numero ELSE c]
                           [] OTHER ->
                                [rq1 EXCEPT !.pc = "update",
                                            !.body = reanalizar_result(ia, FALSE, PyNone)]]
          ELSE \E remote \in RemoteOutcomes, c \in rng :
                 LET out == generate_medical_explanation(e.api_key, ia.resultado,
                                                         ia.confianza, ia.heatmap, remote)
                     rq1 == [rq EXCEPT !.ia = ia,
                                       !.expl = [fn |-> ExplainerFn(ia.heatmap), out |-> out]]
                 IN /\ _explainer_instance' = e
                    /\ remoteCalls' = remoteCalls + out.calls
                    /\ req' = [req EXCEPT ![r] =
                         CASE rq.kind = "analizar" ->
                                IF out.raised THEN OnAnalysisError(rq1)
                                ELSE Respond(rq1, 200, analizar_result(ia, TRUE, out.ret))
                           [] rq.kind = "crear" ->
                                [rq1 EXCEPT
                                   !.pc = "find_numero",
                                   !.numero = IF rq.supplied THEN rq.numero ELSE c,
                                   !.ai_summary =
                                       IF out.raised
                                       THEN PyStr("Analisis completado. Resultado: "
                                                  \o ia.resultado \o " (confianza: "
                                                  \o FloatStr(ia.confianza) \o "%)")
                                       ELSE out.ret,
                                   !.imagen_mapa = ia.heatmap]
                           [] OTHER ->
                                IF out.raised THEN OnAnalysisError(rq1)
                                ELSE [rq1 EXCEPT !.pc = "update",
                                                 !.body = reanalizar_result(ia, TRUE, out.ret)]]
    /\ UNCHANGED <<phase, checkpointOk, gemini_api_key, _model_instance,
                   loads, loadAttempts, registros, files, call, directVars>>

\* crear_registro: the result of find_one({"numeroExpediente": numero_expediente})
\* and the code up to the next find_one; `looked` are the numbers the lookups
\* of this request found in the store
FindNumero(r) ==
    /\ req[r].pc = "find_numero"
    /\ running = 0
    /\ LET exists == FindByNumero(req[r].numero) # {}
           rq == [req[r] EXCEPT !.lookups = @ + 1,
                                !.looked = IF exists THEN @ \cup {req[r].numero} ELSE @]
       IN IF ~exists
          THEN req' = [req EXCEPT ![r] = [rq EXCEPT !.pc = "save_original"]]
          ELSE IF rq.supplied
          THEN req' = [req EXCEPT ![r] = Respond(rq, 400, NoBody)]
          ELSE \E c \in rng :
                 IF rq.retry_count + 1 >= max_retries
                 THEN req' = [req EXCEPT ![r] =
                         Respond([rq EXCEPT !.numero = c,
                                            !.retry_count = rq.retry_count + 1], 500, NoBody)]
                 ELSE req' = [req EXCEPT ![r] =
                         [rq EXCEPT !.numero = c, !.retry_count = rq.retry_count + 1]]
    /\ UNCHANGED <<phase, checkpointOk, gemini_api_key, _model_instance,
                   _explainer_instance, loads, loadAttempts, registros, files,
                   running, call, remoteCalls, directVars>>

\* save_uploaded_image(imagen_original, numero_expediente, tipo="original")
SaveOriginal(r) ==
    /\ req[r].pc = "save_original"
    /\ running = 0
    /\ \E ok \in BOOLEAN :
         LET rq == req[r]
             path == OriginalPath(rq.numero, UploadNamed(rq.upload).ext)
         IN IF ok
            THEN /\ files' = WriteFile(files, path, rq.upload, FALSE)
                 /\ req' = [req EXCEPT ![r] =
                      [rq EXCEPT !.ruta_original = path,
                                 !.effects = @ \cup {"file"},
                                 !.pc = IF rq.imagen_mapa.present
                                        THEN "save_mapa" ELSE "insert"]]
            ELSE /\ files' = files
                 /\ req' = [req EXCEPT ![r] = Respond(rq, 500, NoBody)]
    /\ UNCHANGED <<phase, checkpointOk, gemini_api_key, _model_instance,
                   _explainer_instance, loads, loadAttempts, registros,
                   running, call, remoteCalls, directVars>>

\* save_uploaded_image(imagen_mapa, numero_expediente, tipo="mapa_atencion")
SaveMapa(r) ==
    /\ req[r].pc = "save_mapa"
    /\ running = 0
    /\ \E ok \in BOOLEAN :
         LET rq == req[r]
             path == MapaPath(rq.numero)
         IN IF ok
            THEN /\ files' = WriteFile(files, path, rq.upload, rq.imagen_mapa.composite)
                 /\ req' = [req EXCEPT ![r].ruta_mapa = path, ![r].pc = "insert"]
            ELSE /\ files' = files
                 /\ req' = [req EXCEPT ![r].pc = "insert"]
    /\ UNCHANGED <<phase, checkpointOk, gemini_api_key, _model_instance,
                   _explainer_instance, loads, loadAttempts, registros,
                   running, call, remoteCalls, directVars>>

\* db.registros.insert_one(registro_doc), and the cleanup when it raises
Insert(r) ==
    /\ req[r].pc = "insert"
    /\ running = 0
    /\ \E ok \in BOOLEAN :
         LET rq == req[r]
         IN IF ok
            THEN /\ registros' = registros \cup {Registro(r, rq)}
                 /\ files' = files
                 /\ req' = [req EXCEPT ![r].pc = "fetch",
                                       ![r].effects = @ \cup {"insert"}]
            ELSE /\ registros' = registros
                 /\ files' = IF rq.ruta_mapa # ""
                             THEN delete_file(delete_file(files, rq.ruta_original), rq.ruta_mapa)
                             ELSE delete_file(files, rq.ruta_original)
                 /\ req' = [req EXCEPT ![r] = Respond(rq, 500, NoBody)]
    /\ UNCHANGED <<phase, checkpointOk, gemini_api_key, _model_instance,
                   _explainer_instance, loads, loadAttempts,
                   running, call, remoteCalls, directVars>>

\* created_registro = find_one({"_id": result.inserted_id}); return it
Fetch(r) ==
    /\ req[r].pc = "fetch"
    /\ running = 0
    /\ LET rq == req[r]
           found == FindById(r)
           doc == CHOOSE d \in found : TRUE
       IN IF found = {}
          THEN req' = [req EXCEPT ![r] = Respond(rq, 500, NoBody)]
          ELSE req' = [req EXCEPT ![r] =
                  Respond(rq, 201,
                          [resultado |-> doc.resultado,
                           confianza |-> doc.analisis.confianza,
                           has_explicacion |-> TRUE,
                           explicacion |-> doc.analisis.aiSummary,
                           has_heatmap |-> FALSE,
                           registro |-> doc._id])]
    /\ UNCHANGED <<phase, checkpointOk, gemini_api_key, _model_instance,
                   _explainer_instance, loads, loadAttempts, registros, files,
                   running, call, remoteCalls, directVars>>

\* reanalizar_registro: update_one({"_id": ...}, {"$set": ...}); return
Update(r) ==
    /\ req[r].pc = "update"
    /\ running = 0
    /\ LET rq == req[r]
           set(d) == [d EXCEPT !.analisis.resultado = rq.ia.resultado,
                               !.analisis.aiSummary =
                                   IF rq.body.has_explicacion
                                   THEN rq.body.explicacion ELSE PyNone,
                               !.analisis.confianza = rq.ia.confianza,
                               !.resultado = rq.ia.resultado,
                               !.updates = 1]
       IN /\ registros' = {IF d._id = rq.target THEN set(d) ELSE d : d \in registros}
          /\ req' = [req EXCEPT ![r] =
                 Respond([rq EXCEPT !.effects =
                              IF FindById(rq.target) # {} THEN @ \cup {"update"} ELSE @],
                         200, rq.body)]
    /\ UNCHANGED <<phase, checkpointOk, gemini_api_key, _model_instance,
                   _explainer_instance, loads, loadAttempts, files,
                   running, call, remoteCalls, directVars>>

(***************************************************************************)
(* The read and delete handlers of /registros                              *)
(***************************************************************************)
\* numero_expediente of GET /registros/expediente/{numero_expediente}
PathNumeros == {"EXP-1", "20261102-A1B2"}
\* the resultado query parameter of GET /registros/; skip, limit and buscar
\* keep their defaults, which drop nothing from two records
ResultadoFilters == {"", "Anemia"}

\* db.registros.find(query) of listar_registros
FindListed(esp, resultado) ==
    {d \in registros : /\ d.especialistaId = esp
                       /\ resultado \in {"Anemia", "No Anemia"} => d.resultado = resultado}

\* find_one({"numeroExpediente": ..., "especialistaId": ...})
FindOwnedByNumero(numero, esp) ==
    {d \in registros : d.numeroExpediente = numero /\ d.especialistaId = esp}

\* a request reaches listar_registros, obtener_registro,
\* obtener_registro_por_expediente or eliminar_registro
ArriveRead(r) ==
    /\ phase = "serving"
    /\ req[r].pc = "idle"
    /\ r > 1 => req[r - 1].pc # "idle"
    /\ \E kind \in {"listar", "obtener", "por_expediente", "eliminar"},
          esp \in Especialistas, target \in Reqs, numero \in PathNumeros,
          resultado \in ResultadoFilters :
          /\ kind # "listar" => resultado = ""
          /\ kind # "por_expediente" => numero = "EXP-1"
          /\ kind \in {"listar", "por_expediente"} => target = 1
          /\ req' = [req EXCEPT ![r] =
                 [IdleReq EXCEPT
                    !.pc = IF kind = "eliminar" THEN "eliminar_find" ELSE kind,
                    !.kind = kind, !.esp = esp, !.filtro = resultado,
                    !.numero = IF kind = "por_expediente" THEN numero ELSE "",
                    !.target = IF kind \in {"obtener", "eliminar"} THEN target ELSE 0]]
    /\ UNCHANGED <<phase, checkpointOk, gemini_api_key, _model_instance,
                   _explainer_instance, loads, loadAttempts, registros, files,
                   running, call, remoteCalls, directVars>>

\* listar_registros: the result of find(query)...to_list, returned
Listar(r) ==
    /\ req[r].pc = "listar"
    /\ running = 0
    /\ req' = [req EXCEPT ![r] =
          Respond([req[r] EXCEPT !.returned = FindListed(req[r].esp, req[r].filtro)],
                  200, NoBody)]
    /\ UNCHANGED <<phase, checkpointOk, gemini_api_key, _model_instance,
                   _explainer_instance, loads, loadAttempts, registros, files,
                   running, call, remoteCalls, directVars>>

\* obtener_registro: the result of find_one, 404 or the record
Obtener(r) ==
    /\ req[r].pc = "obtener"
    /\ running = 0
    /\ LET found == FindOwned(req[r].target, req[r].esp)
       IN req' = [req EXCEPT ![r] =
             IF found = {} THEN Respond(req[r], 404, NoBody)
             ELSE Respond([req[r] EXCEPT !.returned = found], 200, NoBody)]
    /\ UNCHANGED <<phase, checkpointOk, gemini_api_key, _model_instance,
                   _explainer_instance, loads, loadAttempts, registros, files,
                   running, call, remoteCalls, directVars>>

\* obtener_registro_por_expediente: find_one returns one of the matches
ObtenerPorExpediente(r) ==
    /\ req[r].pc = "por_expediente"
    /\ running = 0
    /\ LET found == FindOwnedByNumero(req[r].numero, req[r].esp)
       IN IF found = {}
          THEN req' = [req EXCEPT ![r] = Respond(req[r], 404, NoBody)]
          ELSE \E d \in found :
                 req' = [req EXCEPT ![r] =
                    Respond([req[r] EXCEPT !.returned = {d}], 200, NoBody)]
    /\ UNCHANGED <<phase, checkpointOk, gemini_api_key, _model_instance,
                   _explainer_instance, loads, loadAttempts, registros, files,
                   running, call, remoteCalls, directVars>>

\* eliminar_registro: the result of find_one, 404 or on to delete_one
EliminarFind(r) ==
    /\ req[r].pc = "eliminar_find"
    /\ running = 0
    /\ LET found == FindOwned(req[r].target, req[r].esp)
           registro == CHOOSE d \in found : TRUE
       IN req' = [req EXCEPT ![r] =
             IF found = {} THEN Respond(req[r], 404, NoBody)
             ELSE [req[r] EXCEPT !.pc = "eliminar_delete",
                                 !.ruta_original = registro.rutaOriginal,
                                 !.ruta_mapa = registro.rutaMapaAtencion]]
    /\ UNCHANGED <<phase, checkpointOk, gemini_api_key, _model_instance,
                   _explainer_instance, loads, loadAttempts, registros, files,
                   running, call, remoteCalls, directVars>>

\* eliminar_registro: delete_one({"_id": ...}), 500 when it deleted nothing,
\* else delete_file of the two paths of the record and 204
EliminarDelete(r) ==
    /\ req[r].pc = "eliminar_delete"
    /\ running = 0
    /\ LET rq == req[r]
           matched == FindById(rq.target)
           fs1 == IF rq.ruta_original # "" THEN delete_file(files, rq.ruta_original)
                  ELSE files
           fs2 == IF rq.ruta_mapa # "" THEN delete_file(fs1, rq.ruta_mapa) ELSE fs1
       IN IF matched = {}
          THEN /\ req' = [req EXCEPT ![r] = Respond(rq, 500, NoBody)]
               /\ UNCHANGED <<registros, files>>
          ELSE /\ registros' = registros \ matched
               /\ files' = fs2
               /\ req' = [req EXCEPT ![r] =
                      Respond([rq EXCEPT !.effects = @ \cup {"delete"}], 204, NoBody)]
    /\ UNCHANGED <<phase, checkpointOk, gemini_api_key, _model_instance,
                   _explainer_instance, loads, loadAttempts,
                   running, call, remoteCalls, directVars>>

(***************************************************************************)
(* POST /auth/registro (registrar_especialista)                            *)
(***************************************************************************)
AuthReqs == 1..MaxAuth
AuthEmails == {"ana@scanna.mx", "luis@scanna.mx"}
\* especialista.cedula_profesional; "" is falsy, as is None
AuthCedulas == {"", "CED-1"}

IdleAuthReq == [pc |-> "idle", email |-> "", cedula |-> "", status |-> 0,
                inserted_id |-> 0, emailTaken |-> FALSE]

\* especialista_doc
Especialista(id, rq) ==
    [_id |-> id, email |-> rq.email, cedulaProfesional |-> rq.cedula]

FindByEmail(email) == {e \in especialistas : e.email = email}
FindByCedula(cedula) == {e \in especialistas : e.cedulaProfesional = cedula}

\* insert_one raises DuplicateKeyError: the index on "email" rejects a second
\* document with the same email. The index on "cedula_profesional" is sparse
\* and no document has that field (the documents have cedulaProfesional), so
\* it rejects nothing.
DuplicateKey(doc) == emailIndex /\ FindByEmail(doc.email) # {}

\* the request reaches the handler
RegistroArrive(a) ==
    /\ areq[a].pc = "idle"
    /\ \E email \in AuthEmails, cedula \in AuthCedulas :
          areq' = [areq EXCEPT ![a] = [IdleAuthReq EXCEPT
                       !.pc = "find_email", !.email = email, !.cedula = cedula]]
    /\ UNCHANGED <<serverVars, gemini_api_key, _explainer_instance, call,
                   remoteCalls, pcall, seen, ccall, especialistas, emailIndex,
                   rng>>

\* existing = await db.especialistas.find_one({"email": ...}); 400 if found
RegistroFindEmail(a) ==
    /\ areq[a].pc = "find_email"
    /\ areq' = [areq EXCEPT ![a] =
          IF FindByEmail(areq[a].email) # {}
          THEN [@ EXCEPT !.pc = "done", !.status = 400, !.emailTaken = TRUE]
          ELSE [@ EXCEPT !.pc = IF areq[a].cedula # "" THEN "find_cedula" ELSE "insert"]]
    /\ UNCHANGED <<serverVars, gemini_api_key, _explainer_instance, call,
                   remoteCalls, pcall, seen, ccall, especialistas, emailIndex,
                   rng>>

\* existing_cedula = await db.especialistas.find_one({"cedulaProfesional": ...})
RegistroFindCedula(a) ==
    /\ areq[a].pc = "find_cedula"
    /\ areq' = [areq EXCEPT ![a] =
          IF FindByCedula(areq[a].cedula) # {}
          THEN [@ EXCEPT !.pc = "done", !.status = 400]
          ELSE [@ EXCEPT !.pc = "insert"]]
    /\ UNCHANGED <<serverVars, gemini_api_key, _explainer_instance, call,
                   remoteCalls, pcall, seen, ccall, especialistas, emailIndex,
                   rng>>

\* result = await db.especialistas.insert_one(especialista_doc); the handler
\* catches nothing, so a DuplicateKeyError ends the request with 500
RegistroInsert(a) ==
    /\ areq[a].pc = "insert"
    /\ LET id == Cardinality(especialistas) + 1
           doc == Especialista(id, areq[a])
           taken == FindByEmail(areq[a].email) # {}
       IN IF DuplicateKey(doc)
          THEN /\ areq' = [areq EXCEPT ![a] = [@ EXCEPT !.pc = "done",
                               !.status = 500, !.emailTaken = TRUE]]
               /\ UNCHANGED especialistas
          ELSE /\ especialistas' = especialistas \cup {doc}
               /\ areq' = [areq EXCEPT ![a] = [@ EXCEPT !.pc = "fetch",
                               !.inserted_id = id, !.emailTaken = taken]]
    /\ UNCHANGED <<serverVars, gemini_api_key, _explainer_instance, call,
                   remoteCalls, pcall, seen, ccall, emailIndex, rng>>

\* created_especialista = await db.especialistas.find_one({"_id": ...}); 201
RegistroFetch(a) ==
    /\ areq[a].pc = "fetch"
    /\ areq' = [areq EXCEPT ![a] = [@ EXCEPT !.pc = "done", !.status = 201]]
    /\ UNCHANGED <<serverVars, gemini_api_key, _explainer_instance, call,
                   remoteCalls, pcall, seen, ccall, especialistas, emailIndex,
                   rng>>

(***************************************************************************)
(* Specifications                                                          *)
(***************************************************************************)
InitBase ==
    /\ phase = "starting"
    /\ _model_instance = 0
    /\ _explainer_instance = NoExplainer
    /\ loads = 0
    /\ loadAttempts = 0
    /\ registros = {}
    /\ files = {}
    /\ req = [r \in Reqs |-> IdleReq]
    /\ running = 0
    /\ call = NoCall
    /\ remoteCalls = 0
    /\ pcall = NoPredictCall
    /\ seen = <<>>
    /\ ccall = NoConcatCall
    /\ especialistas = {}
    /\ areq = [a \in AuthReqs |-> IdleAuthReq]

\* scripts/init_db.py is run by hand; the servers of the other sections are
\* taken before it ran
InitCommon ==
    /\ InitBase
    /\ emailIndex = FALSE
    /\ rng = {"20261102-A1B2"}

Init ==
    /\ InitCommon
    /\ checkpointOk \in BOOLEAN
    /\ gemini_api_key \in ApiKeys

\* what the event loop may run next for request r
HandlerStep(r) ==
    \/ Validate(r) \/ BeginAI(r) \/ Lookup(r) \/ EndAI(r) \/ FindNumero(r)
    \/ SaveOriginal(r) \/ SaveMapa(r) \/ Insert(r) \/ Fetch(r) \/ Update(r)

Next ==
    \/ Startup
    \/ \E r \in Reqs : Arrive(r)
    \/ \E r \in Reqs : Validate(r)
    \/ \E r \in Reqs : BeginAI(r)
    \/ \E r \in Reqs : Lookup(r)
    \/ \E r \in Reqs : EndAI(r)
    \/ \E r \in Reqs : FindNumero(r)
    \/ \E r \in Reqs : SaveOriginal(r)
    \/ \E r \in Reqs : SaveMapa(r)
    \/ \E r \in Reqs : Insert(r)
    \/ \E r \in Reqs : Fetch(r)
    \/ \E r \in Reqs : Update(r)

Spec == Init /\ [][Next]_vars

InitExplainer ==
    /\ InitCommon
    /\ checkpointOk = TRUE
    /\ gemini_api_key \in ApiKeys

NextExplainer ==
    \/ CallGenerateExplanation
    \/ CallGenerateSummaryWithoutImage
    \/ CallGenerateMedicalExplanation

SpecExplainer == InitExplainer /\ [][NextExplainer]_vars

InitConcat == InitCommon /\ checkpointOk = TRUE /\ gemini_api_key = ""

NextConcat == CallConcat

SpecConcat == InitConcat /\ [][NextConcat]_vars

\* a loaded checkpoint, no credential, and a generator that can draw two
\* numbers
InitGen ==
    /\ InitBase
    /\ emailIndex = FALSE
    /\ rng = GenPool
    /\ checkpointOk = TRUE
    /\ gemini_api_key = ""

NextGen == Next

SpecGen == InitGen /\ [][NextGen]_vars

\* the record store with all the handlers of /registros
InitStore ==
    /\ InitCommon
    /\ checkpointOk = TRUE
    /\ gemini_api_key = ""

NextStore ==
    \/ Startup
    \/ \E r \in Reqs : Arrive(r)
    \/ \E r \in Reqs : Validate(r)
    \/ \E r \in Reqs : BeginAI(r)
    \/ \E r \in Reqs : Lookup(r)
    \/ \E r \in Reqs : EndAI(r)
    \/ \E r \in Reqs : FindNumero(r)
    \/ \E r \in Reqs : SaveOriginal(r)
    \/ \E r \in Reqs : SaveMapa(r)
    \/ \E r \in Reqs : Insert(r)
    \/ \E r \in Reqs : Fetch(r)
    \/ \E r \in Reqs : Update(r)
    \/ \E r \in Reqs : ArriveRead(r)
    \/ \E r \in Reqs : Listar(r)
    \/ \E r \in Reqs : Obtener(r)
    \/ \E r \in Reqs : ObtenerPorExpediente(r)
    \/ \E r \in Reqs : EliminarFind(r)
    \/ \E r \in Reqs : EliminarDelete(r)

SpecStore == InitStore /\ [][NextStore]_vars

\* create_indexes of scripts/init_db.py has been run, or not
InitAuth ==
    /\ InitBase
    /\ emailIndex \in BOOLEAN
    /\ rng = GenPool
    /\ checkpointOk = TRUE
    /\ gemini_api_key = ""

NextAuth ==
    \/ \E a \in AuthReqs : RegistroArrive(a)
    \/ \E a \in AuthReqs : RegistroFindEmail(a)
    \/ \E a \in AuthReqs : RegistroFindCedula(a)
    \/ \E a \in AuthReqs : RegistroInsert(a)
    \/ \E a \in AuthReqs : RegistroFetch(a)

SpecAuth == InitAuth /\ [][NextAuth]_vars

InitPredict ==
    /\ InitCommon
    /\ checkpointOk = TRUE
    /\ gemini_api_key = ""

NextPredict ==
    \/ CallGetModel
    \/ CallPredict

SpecPredict == InitPredict /\ [][NextPredict]_vars

(***************************************************************************)
(* Properties of the explanation client (SpecExplainer)                    *)
(***************************************************************************)
\* the fallback text a call is to return: keyed by the label alone in
\* generate_explanation, by the label and the confidence in
\* generate_summary_without_image
FallbackOf(c) ==
    _generate_fallback_summary(c.predicted_class,
        IF c.fn = "generate_explanation" THEN 0 ELSE c.confidence)

\* C1: for every label and every outcome of the remote call (no credential,
\* quota error, any other error, a response whose text is empty or missing),
\* generate_explanation and generate_summary_without_image return a
\* non-empty string.
C1_NeverEmpty ==
    call.fn # "none" => ~call.out.raised /\ IsNonEmptyStr(call.out.ret)

\* C2: whenever the remote call fails, with a quota signal or with any other
\* error, both functions return the deterministic fallback text and no
\* exception leaves them.
C2_FailureFallsBack ==
    (call.fn # "none" /\ call.api_key # "" /\ RemoteFailed(call.remote))
        => ~call.out.raised /\ call.out.ret = FallbackOf(call)

C2_Witness ==
    /\ call.fn = "generate_explanation"
    /\ call.api_key # ""
    /\ call.remote = APIError(401, "UNAUTHENTICATED")
    /\ call.out.calls = 1
    /\ call.out.ret = FallbackOf(call)

\* C3: with an empty credential both functions make no call of the remote
\* service and return exactly the fallback template of the given label.
C3_NoCredentialNoCall ==
    (call.fn # "none" /\ call.api_key = "")
        => /\ call.out.calls = 0
           /\ remoteCalls = 0
           /\ ~call.out.raised
           /\ call.out.ret = FallbackOf(call)

C3_Witness ==
    /\ call.fn = "generate_summary_without_image"
    /\ call.api_key = ""
    /\ call.predicted_class = "No Anemia"
    /\ call.confidence = 8750
    /\ call.remote = Response(RemoteText)
    /\ call.out.ret = FallbackOf(call)

\* the call ended in _generate_fallback_summary: no credential, a failed
\* remote call, or (with an image) a failed resize
UsedFallback(c) ==
    /\ c.fn # "none"
    /\ \/ c.api_key = ""
       \/ RemoteFailed(c.remote)
       \/ c.fn = "generate_explanation" /\ ResizeRaises(c.image)

\* the fixed texts, accents left out as in the model of the function
AnemiaAdvice ==
    "Se detectaron signos compatibles con anemia. "
    \o "Se observa palidez en la conjuntiva ocular. "
    \o "El analisis mediante IA sugiere realizar estudios "
    \o "complementarios de laboratorio (hemograma completo, niveles "
    \o "de hierro, ferritina) para confirmar el diagnostico y determinar "
    \o "el tipo de anemia. Se recomienda consulta con hematologia "
    \o "para evaluacion detallada."

NoAnemiaAdvice ==
    "No se detectaron signos de anemia. Los valores de "
    \o "coloracion de la conjuntiva estan dentro del rango normal. "
    \o "Se recomienda continuar con chequeos rutinarios y mantener "
    \o "una dieta balanceada rica en hierro. En caso de sintomas como "
    \o "fatiga persistente, consultar con un especialista."

FallbackHead(c) ==
    "Analisis completado con IA (confianza: "
    \o (IF c.fn = "generate_explanation" \/ c.confidence <= 0
        THEN "alta" ELSE FloatStr(c.confidence))
    \o "%). "

\* C13: whenever the fallback is used, the label Anemia gets the fixed anemia
\* text (laboratory studies, hematology consultation) and the other label the
\* fixed no-anemia text (routine check-ups); generate_explanation for the
\* label Anemia under a rate-limit error returns the anemia text verbatim.
C13_FallbackTemplates ==
    /\ UsedFallback(call) =>
          /\ ~call.out.raised
          /\ call.out.ret =
                PyStr(FallbackHead(call) \o
                      (IF call.predicted_class = "Anemia"
                       THEN AnemiaAdvice ELSE NoAnemiaAdvice))
    /\ (/\ call.fn = "generate_explanation"
        /\ call.api_key # ""
        /\ call.predicted_class = "Anemia"
        /\ ~ResizeRaises(call.image)
        /\ call.remote = APIError(429, "RESOURCE_EXHAUSTED"))
          => call.out.ret = PyStr("Analisis completado con IA (confianza: alta%). "
                                  \o AnemiaAdvice)

C13_Witness ==
    /\ call.fn = "generate_explanation"
    /\ call.api_key # ""
    /\ call.predicted_class = "Anemia"
    /\ call.image = Img(600, 300, TRUE)
    /\ call.remote = APIError(429, "RESOURCE_EXHAUSTED")
    /\ call.out.calls = 1
    /\ call.out.ret = PyStr("Analisis completado con IA (confianza: alta%). "
                            \o AnemiaAdvice)

\* the same function called again with the same label (and, without image,
\* the same confidence) but another credential, image and remote outcome
SameKeyCall(c, api_key, image, remote) ==
    IF c.fn = "generate_explanation"
    THEN Called(c.fn, api_key, c.predicted_class, 0, image, remote,
                generate_explanation(api_key, c.predicted_class, image, remote))
    ELSE Called(c.fn, api_key, c.predicted_class, c.confidence, NoImage, remote,
                generate_summary_without_image(api_key, c.predicted_class,
                                               c.confidence, remote))

\* C14: the fallback text depends on the label alone in generate_explanation
\* and on the label and the confidence alone in
\* generate_summary_without_image: two calls that fall back with the same
\* label (and confidence) return the same text, whatever the cause of the
\* fallback and whatever image was passed.
C14_FallbackKeyedByLabel ==
    /\ [][(/\ UsedFallback(call) /\ UsedFallback(call')
           /\ call'.fn = call.fn
           /\ call'.predicted_class = call.predicted_class
           /\ call'.confidence = call.confidence)
             => call'.out.ret = call.out.ret]_vars
    /\ [](UsedFallback(call) =>
            \A api_key \in ApiKeys, image \in CallImages, remote \in RemoteOutcomes :
                LET other == SameKeyCall(call, api_key, image, remote)
                IN UsedFallback(other) => other.out.ret = call.out.ret)

\* the second of two calls that fell back for different reasons
C14_Witness ==
    /\ remoteCalls = 2
    /\ call.fn = "generate_explanation"
    /\ call.api_key # ""
    /\ call.remote = OtherError
    /\ call.image = Img(300, 200, FALSE)
    /\ call.out.calls = 1
    /\ UsedFallback(call)
    /\ call.out.ret = SameKeyCall(call, "", Img(600, 300, TRUE),
                                  APIError(429, "RESOURCE_EXHAUSTED")).out.ret

\* what a call returns when it is made on a fresh explainer with the
\* configured credential and nothing but its own arguments and remote outcome
OwnResult(c) ==
    IF c.fn = "generate_explanation"
    THEN generate_explanation(gemini_api_key, c.predicted_class, c.image, c.remote)
    ELSE generate_summary_without_image(gemini_api_key, c.predicted_class,
                                        c.confidence, c.remote)

\* C21: calls on the shared explainer singleton share no mutable state: the
\* singleton, once constructed, holds the configured credential and nothing
\* else, and the result of every call is determined by its own arguments and
\* its own remote outcome, whatever calls were made before it.
C21_CallsIndependent ==
    /\ _explainer_instance.constructed
          => _explainer_instance = GeminiExplainer(gemini_api_key)
    /\ call.fn # "none"
          => /\ call.api_key = gemini_api_key
             /\ call.out = OwnResult(call)

\* a call that gets the model's text right after earlier calls were made
C21_Witness ==
    /\ remoteCalls = 2
    /\ _explainer_instance.constructed
    /\ call.fn = "generate_summary_without_image"
    /\ call.remote = Response(RemoteText)
    /\ call.out.calls = 1
    /\ call.out.ret = RemoteText

\* C20 as stated: for every image of positive width and height passed with
\* a credential, the image handed to the remote call has both sides between
\* 1 and 1024, each side being the original one scaled by
\* min(1024/w, 1024/h) and truncated, and it is the input image itself when
\* both sides are at most 1024 already.
C20_OptimizedWithinCap ==
    (/\ call.fn = "generate_explanation"
     /\ call.api_key # ""
     /\ call.image.present /\ call.image.w >= 1 /\ call.image.h >= 1)
        => LET o == _optimize_image_for_api(call.image)
               m == IF call.image.w >= call.image.h THEN call.image.w ELSE call.image.h
           IN /\ call.out.calls = 1
              /\ o.w >= 1 /\ o.w <= 1024
              /\ o.h >= 1 /\ o.h <= 1024
              /\ (call.image.w <= 1024 /\ call.image.h <= 1024) => o = call.image
              /\ (call.image.w > 1024 \/ call.image.h > 1024)
                    => /\ o.w = (call.image.w * 1024) \div m
                       /\ o.h = (call.image.h * 1024) \div m

(***************************************************************************)
(* Properties of the inference pipeline and its handlers (Spec)            *)
(***************************************************************************)
\* model.predict was called for request r and has returned or raised
Analysed(r) == req[r].model # 0 /\ req[r].pc # "predict"

UploadOf(r) == UploadNamed(req[r].upload)

\* C4: if a step of the heatmap construction raises, _generate_heatmap
\* returns the original image unmodified and predict still returns the
\* classification without raising; the request does not fail for it.
C4_HeatmapFailureRecovered ==
    \A r \in Reqs :
        (Analysed(r) /\ req[r].genExp /\ UploadOf(r).fwd /\ HeatmapRaises(UploadOf(r)))
            => /\ ~req[r].ia.raised
               /\ req[r].ia.heatmap_caught
               /\ req[r].ia.heatmap = UploadOf(r).img
               /\ req[r].ia.resultado \in Labels
               /\ req[r].ia.confianza >= 5000
               /\ (req[r].kind \in {"analizar", "reanalizar"} /\ req[r].pc = "done")
                      => req[r].status = 200

C4_Witness ==
    \E r \in Reqs :
        /\ req[r].kind = "analizar"
        /\ req[r].genExp
        /\ req[r].upload = "huge.png"
        /\ req[r].pc = "done"
        /\ req[r].status = 200
        /\ req[r].ia.heatmap_caught
        /\ req[r].ia.heatmap = Img(9000, 9000, FALSE)

\* C5: when predict raises for a request, the request ends with a 500 and the
\* shared state is what it was: the model singleton stays loaded, no record
\* is inserted or updated, no file is written; later requests are served.
C5_PredictFailureIsolated ==
    /\ [][\A r \in Reqs :
            (req[r].pc = "predict" /\ req'[r].ia.raised)
                => /\ req'[r].pc = "done"
                   /\ req'[r].status = 500
                   /\ registros' = registros
                   /\ files' = files
                   /\ loads' = loads
                   /\ _model_instance' = _model_instance
                   /\ _model_instance' # 0]_vars
    /\ [](\A r \in Reqs :
            /\ (req[r].pc = "done" /\ req[r].ia.raised)
                   => /\ req[r].status = 500
                      /\ req[r].effects = {}
                      /\ _model_instance = req[r].model
            /\ (req[r].afterFail /\ req[r].pc = "done" /\ req[r].kind = "analizar"
                    /\ UploadOf(r).valid /\ UploadOf(r).fwd)
                   => req[r].status = 200 /\ req[r].model = _model_instance)

C5_Witness ==
    \E r, q \in Reqs :
        /\ req[r].pc = "done" /\ req[r].ia.raised /\ req[r].status = 500
        /\ req[r].kind = "crear"
        /\ req[q].afterFail /\ req[q].kind = "crear"
        /\ req[q].pc = "done" /\ req[q].status = 201
        /\ Cardinality(registros) = 1

\* C6: in any interleaving of handlers calling get_model, the checkpoint is
\* loaded at most once and every call that returns yields the same instance.
C6_SingleModelInstance ==
    /\ loads <= 1
    /\ \A r \in Reqs : req[r].model # 0 => req[r].model = _model_instance

C6_Witness ==
    /\ loads = 1
    /\ req[1].pc = "save_original" /\ req[1].model = _model_instance
    /\ req[2].pc = "predict" /\ req[2].model = _model_instance

LoadFailed(r) == req[r].pc = "done" /\ req[r].status = 500

InFlight(r) == req[r].pc \notin {"idle", "done"}

C8_PredictOffLoop ==
    \A r \in Reqs :
        req[r].pc = "predict" =>
            \A q \in Reqs \ {r} : InFlight(q) => ENABLED HandlerStep(q)

\* C9: a requested explanation comes from generate_explanation exactly when
\* a composite image (original plus attention overlay) is available, and
\* from generate_summary_without_image otherwise, also when the heatmap
\* could not be rendered.
C9_ExplainerByComposite ==
    \A r \in Reqs :
        req[r].expl.fn # "none" =>
            (req[r].expl.fn = "generate_explanation"
                <=> (req[r].ia.heatmap.present /\ req[r].ia.heatmap.composite))

\* C10: an image is in the result, and stored by crear_registro as the
\* record's attention map, only if the heatmap was requested and rendered.
C10_MapaOnlyIfRendered ==
    /\ \A r \in Reqs :
          req[r].ia.heatmap.present => req[r].genExp /\ ~req[r].ia.heatmap_caught
    /\ \A d \in registros :
          d.rutaMapaAtencion # ""
              => /\ req[d._id].genExp /\ ~req[d._id].ia.heatmap_caught
                 /\ \A f \in FileAt(d.rutaMapaAtencion) : f.composite

\* C11: every successful analizar, crear_registro and reanalizar request
\* carries an explanation text exactly when generar_explicacion was true,
\* and a carried explanation is a non-empty text, never null.
C11_ExplanationIffRequested ==
    /\ \A r \in Reqs :
          (req[r].pc = "done" /\ req[r].status = 200)
              => /\ req[r].body.has_explicacion <=> req[r].genExp
                 /\ req[r].body.has_explicacion => IsNonEmptyStr(req[r].body.explicacion)
    /\ \A d \in registros :
          \E r \in Reqs :
              /\ IF d.updates = 0 THEN r = d._id
                 ELSE /\ req[r].kind = "reanalizar" /\ req[r].target = d._id
                      /\ "update" \in req[r].effects
              /\ IF req[r].genExp THEN IsNonEmptyStr(d.analisis.aiSummary)
                 ELSE d.analisis.aiSummary = PyNone

\* C12: the responses of /registros/analizar and /registros/{id}/reanalizar
\* never contain the heatmap image, whether generar_explicacion is true or
\* false and whether the heatmap was rendered or not.
C12_NoHeatmapInResponse ==
    \A r \in Reqs :
        (req[r].pc = "done" /\ req[r].kind \in {"analizar", "reanalizar"})
            => ~req[r].body.has_heatmap

C12_Witness ==
    \E r \in Reqs :
        /\ req[r].kind = "analizar"
        /\ req[r].pc = "done" /\ req[r].status = 200
        /\ req[r].genExp
        /\ req[r].ia.has_heatmap /\ req[r].ia.heatmap.composite
        /\ IsNonEmptyStr(req[r].body.explicacion)
        /\ ~req[r].body.has_heatmap

(***************************************************************************)
(* Properties of predict (SpecPredict)                                     *)
(***************************************************************************)
\* the last direct call of predict returned a result
Predicted == pcall.made /\ ~pcall.out.raised

\* C15 as stated: the label is Anemia exactly when the returned anemia
\* probability is the larger of the two returned class probabilities.
C15_LabelIsStrictArgmax ==
    Predicted =>
        (pcall.out.resultado = "Anemia" <=> pcall.out.anemia > pcall.out.no_anemia)

\* C15 as amended: the returned probability of the returned label is never
\* below the other one, so the label is an argmax of the returned
\* probabilities; when the two returned probabilities are equal (an exact
\* tie, or two values that round to 50.0) the label is Anemia exactly when
\* the unrounded anemia probability is not below the other one.
C15_LabelIsAnArgmax ==
    Predicted =>
        /\ pcall.out.resultado \in Labels
        /\ pcall.out.resultado = "Anemia" => pcall.out.anemia >= pcall.out.no_anemia
        /\ pcall.out.resultado = "No Anemia" => pcall.out.no_anemia >= pcall.out.anemia
        /\ pcall.out.anemia = pcall.out.no_anemia
              => (pcall.out.resultado = "Anemia" <=> pcall.image.p0 >= pcall.image.p1)

C15_Witness ==
    /\ Predicted
    /\ pcall.image.name = "near"
    /\ pcall.out.resultado = "No Anemia"
    /\ pcall.out.anemia = 5000
    /\ pcall.out.no_anemia = 5000

\* C16: the confidence predict returns is a percentage between 50 and 100
\* and equals the returned probability of the returned label.
C16_ConfidenceOfPredicted ==
    Predicted =>
        /\ pcall.out.confianza >= 5000
        /\ pcall.out.confianza <= 10000
        /\ pcall.out.confianza =
              IF pcall.out.resultado = "Anemia"
              THEN pcall.out.anemia ELSE pcall.out.no_anemia

C16_Witness ==
    /\ Predicted
    /\ pcall.image.name = "healthy"
    /\ pcall.out.resultado = "No Anemia"
    /\ pcall.out.confianza = 8755
    /\ pcall.out.anemia = 1245

\* C17: the two returned class probabilities, each rounded to two decimals
\* of a percent, sum to 100 within 0.01.
C17_ProbabilitiesSumTo100 ==
    Predicted =>
        /\ pcall.out.anemia + pcall.out.no_anemia >= 10000 - 1
        /\ pcall.out.anemia + pcall.out.no_anemia <= 10000 + 1

C17_Witness ==
    /\ Predicted
    /\ pcall.image.name = "half_up"
    /\ pcall.out.anemia = 1235
    /\ pcall.out.no_anemia = 8766

C19_CompositeDimensions ==
    (Predicted /\ pcall.generate_heatmap /\ ~pcall.out.heatmap_caught)
        => /\ pcall.out.heatmap.present
           /\ pcall.out.heatmap.composite
           /\ pcall.out.heatmap.h = pcall.image.img.h
           /\ pcall.out.heatmap.w = 2 * pcall.image.img.w
           /\ pcall.out.heatmap.split = pcall.image.img.w

C19_Witness ==
    /\ Predicted
    /\ pcall.generate_heatmap
    /\ pcall.image.name = "half_down"
    /\ pcall.out.heatmap = [Img(200, 3000, TRUE) EXCEPT !.split = 100]

\* C23: when the selected attention row is all zero, _generate_heatmap
\* divides nothing and leaves the mask as it is, does not raise, and returns
\* a composite whose left half is the original image; when the maximum is
\* positive, the normalized mask has maximum exactly 1.
C23_ZeroRowSkipsNormalization ==
    (Predicted /\ pcall.generate_heatmap /\ ~HeatmapRaises(pcall.image))
        => /\ MaxOf(pcall.image.mask) = 0
                 => /\ ~pcall.out.heatmap_divided
                    /\ pcall.out.heatmap_mask = pcall.image.mask
                    /\ ~pcall.out.heatmap_caught
                    /\ pcall.out.heatmap.composite
                    /\ pcall.out.heatmap.w = 2 * pcall.image.img.w
                    /\ pcall.out.heatmap.h = pcall.image.img.h
                    /\ pcall.out.heatmap.split = pcall.image.img.w
           /\ MaxOf(pcall.image.mask) > 0
                 => /\ pcall.out.heatmap_divided
                    /\ MaxOf(pcall.out.heatmap_mask) = 1000000

C23_Witness ==
    /\ Predicted
    /\ pcall.generate_heatmap
    /\ pcall.image.name = "flat"
    /\ pcall.out.heatmap_mask = <<0, 0, 0>>
    /\ ~pcall.out.heatmap_divided
    /\ pcall.out.heatmap = [Img(640, 240, TRUE) EXCEPT !.split = 320]

(***************************************************************************)
(* Properties of _concat_images_horizontally (SpecConcat)                  *)
(***************************************************************************)
\* C30 as stated: for every pair of images of positive dimensions,
\* _concat_images_horizontally returns an image of height h1 and width
\* w1 + w2', where w2' is w2 when the heights are equal and otherwise
\* floor(w2 * h1 / h2), and w2' is at least 1.
C30_ConcatDimensions ==
    ccall.made =>
        LET w2 == IF ccall.img1.h = ccall.img2.h THEN ccall.img2.w
                  ELSE (ccall.img2.w * ccall.img1.h) \div ccall.img2.h
        IN /\ ~ccall.out.raised
           /\ w2 >= 1
           /\ ccall.out.image.present
           /\ ccall.out.image.h = ccall.img1.h
           /\ ccall.out.image.w = ccall.img1.w + w2

(***************************************************************************)
(* Properties of /auth/registro (SpecAuth)                                 *)
(***************************************************************************)
\* C22 as stated: after any interleaving of /auth/registro requests at most
\* one specialist exists per email, and a registration whose email is
\* already registered is answered with 400 and inserts no specialist.
C22_OneSpecialistPerEmail ==
    /\ \A e1, e2 \in especialistas : e1.email = e2.email => e1 = e2
    /\ \A a \in AuthReqs :
          (areq[a].pc = "done" /\ areq[a].emailTaken)
              => areq[a].status = 400 /\ areq[a].inserted_id = 0

(***************************************************************************)
(* Properties of the record store (SpecStore)                              *)
(***************************************************************************)
OwnerScoped == {"listar", "obtener", "por_expediente", "reanalizar", "eliminar"}

\* request r takes a step
Steps(r) == req'[r] # req[r]

\* a record of another specialist than the one of request r has the id r asks for
TargetsForeign(r) ==
    \E d \in registros : d._id = req[r].target /\ d.especialistaId # req[r].esp

\* C25: obtener_registro, obtener_registro_por_expediente, listar_registros,
\* reanalizar_registro and eliminar_registro return only records of the
\* authenticated specialist, answer 404 when the record asked for belongs to
\* another specialist, and every step of theirs leaves the records of the
\* other specialists in the store as they were.
C25_OwnRecordsOnly ==
    /\ [](\A r \in Reqs : \A d \in req[r].returned : d.especialistaId = req[r].esp)
    /\ [][\A r \in Reqs :
            (Steps(r) /\ req'[r].kind \in OwnerScoped)
                => /\ \A d \in registros :
                        d.especialistaId # req'[r].esp => d \in registros'
                   /\ (req[r].pc \in {"lookup", "obtener", "eliminar_find"}
                          /\ TargetsForeign(r))
                        => /\ req'[r].pc = "done"
                           /\ req'[r].status = 404
                           /\ req'[r].returned = {}
                           /\ registros' = registros]_vars

C25_Witness ==
    \E r \in Reqs :
        /\ req[r].kind = "eliminar"
        /\ req[r].pc = "done"
        /\ req[r].status = 404
        /\ TargetsForeign(r)
        /\ req[r].effects = {}

\* C24 as stated: under any interleaving of crear_registro requests no two
\* records have the same numeroExpediente, and a request whose supplied
\* number already exists is rejected with 400 and stores nothing.
C24_UniqueNumero ==
    /\ \A d1, d2 \in registros :
          d1.numeroExpediente = d2.numeroExpediente => d1 = d2
    /\ \A r \in Reqs :
          (req[r].kind = "crear" /\ req[r].pc = "done" /\ req[r].status = 400
              /\ req[r].lookups > 0)
             => req[r].effects = {} /\ FindById(r) = {}

\* the files of the records in the store
StoredPaths == {d.rutaOriginal : d \in registros} \cup {d.rutaMapaAtencion : d \in registros}

\* C26 as stated: when insert_one of crear_registro fails, the request ends
\* with 500, no record of the request is in the store, the files the request
\* wrote are removed, and the files of the records already stored are left
\* as they were.
C26_FailedInsertCleansOwnFiles ==
    [][\A r \in Reqs :
         (req[r].pc = "insert" /\ req'[r].pc = "done")
            => /\ req'[r].status = 500
               /\ registros' = registros
               /\ FindById(r) = {}
               /\ \A f \in files' : f.path # req[r].ruta_original
               /\ req[r].ruta_mapa # ""
                     => \A f \in files' : f.path # req[r].ruta_mapa
               /\ \A f \in files :
                     (f.path \in StoredPaths) => f \in files']_vars

\* C27: every record's top-level resultado equals its analisis.resultado and
\* is "Anemia" or "No Anemia", after any sequence of crear_registro,
\* reanalizar_registro and eliminar_registro.
C27_ResultadoConsistent ==
    \A d \in registros :
        /\ d.resultado = d.analisis.resultado
        /\ d.resultado \in {"Anemia", "No Anemia"}

C27_Witness ==
    \E d \in registros :
        /\ d.updates = 1
        /\ d.resultado = "No Anemia"
        /\ d.analisis.resultado = "No Anemia"

\* C28 as stated: reanalizar_registro changes only analisis.resultado,
\* analisis.aiSummary, analisis.confianza and resultado (and updatedAt) of
\* the target record, and with generar_explicacion false it leaves the
\* stored analisis.aiSummary as it was.
C28_ReanalizarFrame ==
    [][\A r \in Reqs :
         (req[r].pc = "update" /\ req'[r].pc = "done")
            => /\ files' = files
               /\ \A d \in registros :
                    IF d._id # req[r].target
                    THEN d \in registros'
                    ELSE \E e \in registros' :
                           /\ e = [d EXCEPT !.analisis.resultado = e.analisis.resultado,
                                            !.analisis.aiSummary = e.analisis.aiSummary,
                                            !.analisis.confianza = e.analisis.confianza,
                                            !.resultado = e.resultado,
                                            !.updates = e.updates]
                           /\ ~req[r].genExp
                                 => e.analisis.aiSummary = d.analisis.aiSummary
               /\ Cardinality(registros') = Cardinality(registros)]_vars

(***************************************************************************)
(* Properties of the number-generation loop (SpecGen)                      *)
(***************************************************************************)
\* the loop of request r ended with the 500 error of the generation
GenerationFailed(r) ==
    /\ req[r].kind = "crear"
    /\ ~req[r].supplied
    /\ req[r].pc = "done"
    /\ req[r].status = 500
    /\ req[r].retry_count >= max_retries

\* C29 as stated: without a supplied number the generation loop makes at
\* most 10 lookups; it ends with a candidate that was looked up and found
\* absent, or with the 500 error, and the error is raised only when every
\* candidate the loop generated was found to exist in the store.
C29_GenerationLoop ==
    \A r \in Reqs :
        (req[r].kind = "crear" /\ ~req[r].supplied)
            => /\ req[r].lookups <= max_retries
               /\ req[r].pc \in {"save_original", "save_mapa", "insert", "fetch"}
                     => req[r].lookups > 0 /\ req[r].numero \notin req[r].looked
               /\ GenerationFailed(r) => req[r].numero \in req[r].looked

====
